---- MODULE Spec2Model ----
(***************************************************************************)
(* Demo_Handling: the file-tree construction and filtered-export core.     *)
(*   src/demos/utils.py  iter_included_files, build_tree,                  *)
(*                       build_tree_from_list                              *)
(*   src/demos/views.py  download_all and its zip_generator                *)
(* Paths, names and glob patterns are strings; a character of a string is  *)
(* the one-character string SubSeq(s, i, i).                               *)
(***************************************************************************)
EXTENDS Integers, Sequences, FiniteSets, TLC

VARIABLES
    os_name,        \* "posix" or "nt": decides os.path.normcase inside fnmatch
    exclude_globs,  \* the demo's exclusion patterns (DemoMeta.exclude)
    flat_items,     \* the flat listing: svn_list_tree's items, or what root.rglob('*') walks
    op,             \* the operation that ran: "idle" before any
    root_kind,      \* what the root path of the local operation is: "dir", "file", "missing"
    outcome,        \* how the operation ended: "none", "ok", "NotFound", "413", "200"
    yielded,        \* the relative paths iter_included_files yielded, in order
    tree,           \* the returned tree: node id (the keys from the root) -> node
    max_bytes,      \* settings.MAX_ZIP_BYTES
    files,          \* download_all's list of (f, size)
    total,          \* download_all's running total
    on_disk,        \* the relative paths still readable on disk
    gen,            \* zip_generator's position
    next_file,      \* index into files of the next zf.write
    written,        \* the archive members written into buf so far
    buf_chunks,     \* the reads of 1024 * 1024 bytes it takes to drain what buf holds
    read_pos,       \* buf's read position, in the same units
    emitted,        \* the chunks handed to the consumer
    open_handles    \* the source files zf.write holds open for reading

vars == <<os_name, exclude_globs, flat_items, op, root_kind, outcome, yielded, tree,
          max_bytes, files, total, on_disk, gen, next_file, written, buf_chunks,
          read_pos, emitted, open_handles>>

treeVars == <<op, root_kind, outcome, yielded, tree>>
archiveVars == <<max_bytes, files, total, on_disk, gen, next_file, written, buf_chunks,
                 read_pos, emitted, open_handles>>

(***************************************************************************)
(* Bounds of the model.                                                    *)
(***************************************************************************)
MaxLen == 3         \* entries of a listing given to the tree builders
MaxFilterLen == 1   \* entries of a listing in the path-filter specification
MaxSize == 1        \* largest file size of an entry
MaxFiles == 2       \* entries of the directory walked by download_all

(***************************************************************************)
(* Strings.                                                                *)
(***************************************************************************)
Ch(s, i) == SubSeq(s, i, i)

UpperCase == "ABCDEFGHIJKLMNOPQRSTUVWXYZ"
LowerCase == "abcdefghijklmnopqrstuvwxyz"

\* The characters paths are made of here, in code-point order: Python compares
\* strings by code point.
CodePoints == "-./0123456789ABCDEFGHIJKLMNOPQRSTUVWXYZ_abcdefghijklmnopqrstuvwxyz"

CharSet == {Ch(CodePoints, i) : i \in 1..Len(CodePoints)}

\* ord(c), as far as the order of two characters goes
OrdOf == [c \in CharSet |-> CHOOSE i \in 1..Len(CodePoints) : Ch(CodePoints, i) = c]

ord(c) == OrdOf[c]

\* str.lower() on one character
LowerOf ==
    [c \in CharSet |->
        IF \E i \in 1..Len(UpperCase) : Ch(UpperCase, i) = c
        THEN Ch(LowerCase, CHOOSE i \in 1..Len(UpperCase) : Ch(UpperCase, i) = c)
        ELSE c]

lower_char(c) == IF c \in CharSet THEN LowerOf[c] ELSE c

RECURSIVE lower(_)
lower(s) == IF s = "" THEN "" ELSE lower_char(Head(s)) \o lower(Tail(s))

\* a < b for Python strings: lexicographic by code point, a proper prefix first.
RECURSIVE str_lt(_, _)
str_lt(a, b) ==
    IF b = "" THEN FALSE
    ELSE IF a = "" THEN TRUE
    ELSE IF Head(a) = Head(b) THEN str_lt(Tail(a), Tail(b))
    ELSE ord(Head(a)) < ord(Head(b))

\* s.split('/'): always at least one part; empty parts are kept.
RECURSIVE split_from(_, _)
split_from(s, cur) ==
    IF s = "" THEN <<cur>>
    ELSE IF Head(s) = "/" THEN <<cur>> \o split_from(Tail(s), "")
    ELSE split_from(Tail(s), cur \o Head(s))

split(s) == split_from(s, "")

\* s.strip('/')
RECURSIVE lstrip(_)
lstrip(s) == IF s # "" /\ Head(s) = "/" THEN lstrip(Tail(s)) ELSE s

RECURSIVE rstrip(_)
rstrip(s) ==
    IF s # "" /\ Ch(s, Len(s)) = "/" THEN rstrip(SubSeq(s, 1, Len(s) - 1)) ELSE s

strip(s) == rstrip(lstrip(s))

(***************************************************************************)
(* fnmatch (the standard library's, as utils.py calls it).                 *)
(***************************************************************************)
\* os.path.normcase on one character: the identity on posix; on nt it lowers
\* the case (and turns '/' into the backslash, in the name and in the pattern
\* alike, which leaves '/' matching '/' as before: the separator is kept here).
normcase_char(c) == IF os_name = "nt" THEN lower_char(c) ELSE c

RECURSIVE skip_stars(_)
skip_stars(pat) == IF pat # "" /\ Head(pat) = "*" THEN skip_stars(Tail(pat)) ELSE pat

\* fnmatch.fnmatch(name, pat) for patterns of literals, '?' and '*': name and
\* pat go through os.path.normcase, character by character here, and then
\* through the regular expression of fnmatch.translate, which turns a run of
\* '*' into one '.*' under the DOTALL flag (any characters, '/' included),
\* '?' into '.' (any one character) and every other character into itself,
\* and which must match the whole name.
RECURSIVE fnmatch(_, _)
fnmatch(name, pat) ==
    IF pat = "" THEN name = ""
    ELSE IF Head(pat) = "*"
         THEN LET rest == skip_stars(pat)
              IN \E k \in 0..Len(name) : fnmatch(SubSeq(name, k + 1, Len(name)), rest)
    ELSE IF Head(pat) = "?"
         THEN name # "" /\ fnmatch(Tail(name), Tail(pat))
    ELSE /\ name # ""
         /\ normcase_char(Head(name)) = normcase_char(Head(pat))
         /\ fnmatch(Tail(name), Tail(pat))

DEFAULT_EXCLUDES ==
    << "**/.svn/**", "**/.road_cache/**", "**/.settings/**",
       "**/*.tmp", "**/SimOutput/**", "**/slprj/**" >>

\* _has_segment(path, segment), on the parts of a relative posix path
_has_segment(rel, segment) ==
    \E i \in 1..Len(split(rel)) : lower(split(rel)[i]) = lower(segment)

\* any(fnmatch.fnmatch(rel, pattern) for pattern in exclude_globs)
any_fnmatch(rel, globs) == \E i \in 1..Len(globs) : fnmatch(rel, globs[i])

\* build_tree_from_list's inner excluded(rel)
excluded(rel) == any_fnmatch(rel, exclude_globs)

(***************************************************************************)
(* The tree under construction.  A node is named by the dictionary keys    *)
(* that lead to it from the root (the root is <<>>), and the tree is the   *)
(* function from these ids to the node dictionaries.  "children" holds the *)
(* keys of the node's children dictionary in insertion order (a Python     *)
(* dict keeps it); children_is says whether the node has that key and      *)
(* whether finalize has turned it into a list; "_parent" is the set of the *)
(* node's parent pointer, empty when the key is absent or None.            *)
(***************************************************************************)
RootId == <<>>

dir_node(name, parent) ==
    [name |-> name, type |-> "dir", relpath |-> "", size |-> 0,
     children |-> <<>>, children_is |-> "dict", _parent |-> parent]

file_node(name, rel, size) ==
    [name |-> name, type |-> "file", relpath |-> rel, size |-> size,
     children |-> <<>>, children_is |-> "absent", _parent |-> {}]

\* node.setdefault('children', {})
setdefault_children(t, node) ==
    IF t[node].children_is = "absent" THEN [t EXCEPT ![node].children_is = "dict"] ELSE t

\* part in node['children']
has_child(t, node, part) == \E i \in 1..Len(t[node].children) : t[node].children[i] = part

\* node['children'][part] = rec, for a part the dictionary does not hold yet
add_child(t, node, part, rec) ==
    [t EXCEPT ![node].children = Append(@, part)] @@ (Append(node, part) :> rec)

\* p = node; while p is not None: p['size'] = p.get('size', 0) + size; p = p.get('_parent')
RECURSIVE bubble(_, _, _)
bubble(t, p, size) ==
    IF p = {} THEN t
    ELSE LET n == CHOOSE x \in p : TRUE
         IN bubble([t EXCEPT ![n].size = @ + size], t[n]._parent, size)

\* The body of "for idx, part in enumerate(parts)", from index idx on, with
\* the loop's variable node.
RECURSIVE descend(_, _, _, _, _, _)
descend(t, node, parts, idx, rel, size) ==
    IF idx > Len(parts) THEN t
    ELSE LET part == parts[idx]
             t1 == setdefault_children(t, node)
         IN IF idx = Len(parts)
            THEN LET t2 == IF has_child(t1, node, part) THEN t1
                           ELSE add_child(t1, node, part, file_node(part, rel, size))
                 IN bubble(t2, {node}, size)
            ELSE LET t2 == IF has_child(t1, node, part) THEN t1
                           ELSE add_child(t1, node, part, dir_node(part, {node}))
                 IN descend(t2, Append(node, part), parts, idx + 1, rel, size)

\* key_lt with the names compared as they are, not in lower case.
key_lt_case_sensitive(x, y) ==
    IF (x.type # "dir") # (y.type # "dir") THEN x.type = "dir"
    ELSE str_lt(x.name, y.name)

\* The sort key of finalize: (x['type'] != 'dir', x['name'].lower()), and its
\* order as Python orders tuples (False before True, then the strings).
key_lt(x, y) ==
    IF (x.type # "dir") # (y.type # "dir") THEN x.type = "dir"
    ELSE str_lt(lower(x.name), lower(y.name))

\* list.sort(key=...): stable, so equal keys keep the order they had.
RECURSIVE insert_sorted(_, _, _, _)
insert_sorted(t, node, sorted, c) ==
    IF sorted = <<>> THEN <<c>>
    ELSE LET last == sorted[Len(sorted)]
         IN IF key_lt(t[Append(node, c)], t[Append(node, last)])
            THEN Append(insert_sorted(t, node, SubSeq(sorted, 1, Len(sorted) - 1), c), last)
            ELSE Append(sorted, c)

RECURSIVE sort_kids(_, _, _)
sort_kids(t, node, kids) ==
    IF kids = <<>> THEN <<>>
    ELSE insert_sorted(t, node, sort_kids(t, node, SubSeq(kids, 1, Len(kids) - 1)),
                       kids[Len(kids)])

\* build_tree_from_list's finalize(n): whenever the node has a children
\* dictionary, empty or not.
RECURSIVE finalize_from_list(_, _)
RECURSIVE finalize_kids_from_list(_, _, _, _)
finalize_kids_from_list(t, n, kids, i) ==
    IF i > Len(kids) THEN t
    ELSE finalize_kids_from_list(finalize_from_list(t, Append(n, kids[i])), n, kids, i + 1)

finalize_from_list(t, n) ==
    LET t1 == [t EXCEPT ![n]._parent = {}]
    IN IF t1[n].children_is = "dict"
       THEN LET kids == t1[n].children
                t2 == finalize_kids_from_list(t1, n, kids, 1)
            IN [t2 EXCEPT ![n].children = sort_kids(t2, n, kids), ![n].children_is = "list"]
       ELSE t1

\* build_tree's finalize(n): only when the children dictionary is not empty.
RECURSIVE finalize(_, _)
RECURSIVE finalize_kids(_, _, _, _)
finalize_kids(t, n, kids, i) ==
    IF i > Len(kids) THEN t
    ELSE finalize_kids(finalize(t, Append(n, kids[i])), n, kids, i + 1)

finalize(t, n) ==
    LET t1 == [t EXCEPT ![n]._parent = {}]
    IN IF t1[n].children # <<>> /\ t1[n].children_is = "dict"
       THEN LET kids == t1[n].children
                t2 == finalize_kids(t1, n, kids, 1)
            IN [t2 EXCEPT ![n].children = sort_kids(t2, n, kids), ![n].children_is = "list"]
       ELSE t1

(***************************************************************************)
(* build_tree_from_list(flat_items, exclude_globs)                         *)
(***************************************************************************)
\* files = [i for i in flat_items if not i['is_dir']], then without the excluded
files_from_list(items) ==
    SelectSeq(SelectSeq(items, LAMBDA i : ~i.is_dir), LAMBDA i : ~excluded(i.relpath))

\* for it in files: rel = it['relpath'].strip('/'); parts = rel.split('/') if rel else []
RECURSIVE insert_all_from_list(_, _, _)
insert_all_from_list(t, fs, k) ==
    IF k > Len(fs) THEN t
    ELSE LET rel == strip(fs[k].relpath)
             parts == IF rel # "" THEN split(rel) ELSE <<>>
         IN insert_all_from_list(descend(t, RootId, parts, 1, rel, fs[k].size), fs, k + 1)

build_tree_from_list(items) ==
    finalize_from_list(
        insert_all_from_list(RootId :> dir_node("", {}), files_from_list(items), 1),
        RootId)

(***************************************************************************)
(* iter_included_files(root, exclude_globs) and build_tree(root, ...)      *)
(***************************************************************************)
\* root.rglob('*') of a path that is no directory yields nothing and raises
\* nothing (pathlib); of a directory it yields the entries below it.
rglob(kind, items) == IF kind = "dir" THEN items ELSE <<>>

\* The (rel, path) pairs iter_included_files yields, as their entries.
iter_included_files(kind, items, globs) ==
    SelectSeq(rglob(kind, items),
              LAMBDA i : /\ ~i.is_dir
                         /\ ~_has_segment(i.relpath, ".svn")
                         /\ ~any_fnmatch(i.relpath, globs))

\* for rel, size in files: parts = rel.split('/')
RECURSIVE insert_all(_, _, _)
insert_all(t, fs, k) ==
    IF k > Len(fs) THEN t
    ELSE insert_all(descend(t, RootId, split(fs[k].relpath), 1, fs[k].relpath, fs[k].size),
                    fs, k + 1)

build_tree(kind, items, globs) ==
    finalize(insert_all(RootId :> dir_node("", {}), iter_included_files(kind, items, globs), 1),
             RootId)

(***************************************************************************)
(* Inputs.                                                                 *)
(***************************************************************************)
Entry(p, s, d) == [relpath |-> p, size |-> s, is_dir |-> d]

BoundedSeq(S, n) == UNION {[1..k -> S] : k \in 0..n}

Sizes == 0..MaxSize

\* Listings for the tree builders: a file "a" beside a file "a/b", names that
\* differ in case only, a file that sorts before a directory, an excluded file.
TreePaths == {"a", "A", "B", "a/b", "b/a", "b/a.tmp"}
TreeSizes == {0, MaxSize}
TreeEntries ==
    {Entry(p, s, FALSE) : p \in TreePaths, s \in TreeSizes} \cup {Entry("b", 0, TRUE)}

\* Listings for the path filter.
FilterPaths ==
    {".svn/e", "a/.svn/e", "a/.SVN/e", "r.tmp", "l/r.tmp", "r.tmp.b", "l/r.tmp.b",
     "b.log", "a/b.log"}
FilterEntries ==
    {Entry(p, s, FALSE) : p \in FilterPaths, s \in Sizes} \cup {Entry("a", 0, TRUE)}
FilterRules == {<<>>, DEFAULT_EXCLUDES, <<"**/*.tmp">>, <<"*.log">>}

\* q lies below the path p
below(p, q) == Len(q) > Len(p) + 1 /\ SubSeq(q, 1, Len(p) + 1) = p \o "/"

\* What a walk of a real directory can list: every path once, nothing below a
\* regular file, and on nt no two names that differ in case only.
FsValid(items) ==
    \A i, j \in 1..Len(items) :
        i # j =>
            /\ items[i].relpath # items[j].relpath
            /\ ~items[i].is_dir => ~below(items[i].relpath, items[j].relpath)
            /\ os_name = "nt" => lower(items[i].relpath) # lower(items[j].relpath)

relpaths(items) == [i \in 1..Len(items) |-> items[i].relpath]

ArchiveIdle ==
    /\ max_bytes = 0 /\ files = <<>> /\ total = 0 /\ on_disk = {} /\ gen = "none"
    /\ next_file = 1 /\ written = <<>> /\ buf_chunks = 0 /\ read_pos = 0 /\ emitted = 0
    /\ open_handles = {}

TreeIdle ==
    /\ op = "idle" /\ outcome = "none" /\ yielded = <<>> /\ tree = <<>>

\* The tree builders on listings of up to MaxLen entries.
Init ==
    /\ os_name \in {"posix", "nt"}
    /\ exclude_globs = DEFAULT_EXCLUDES
    /\ flat_items \in BoundedSeq(TreeEntries, MaxLen)
    /\ root_kind \in {"dir", "file", "missing"}
    /\ root_kind # "dir" => flat_items = <<>>
    /\ TreeIdle /\ ArchiveIdle

\* The path filter on short listings, under several rule sets.
InitFilter ==
    /\ os_name \in {"posix", "nt"}
    /\ exclude_globs \in FilterRules
    /\ flat_items \in BoundedSeq(FilterEntries, MaxFilterLen)
    /\ root_kind = "dir"
    /\ TreeIdle /\ ArchiveIdle

(***************************************************************************)
(* Operations.                                                             *)
(***************************************************************************)
\* build_tree_from_list(flat_items, exclude_globs) on a remote listing
BuildTreeFromList ==
    /\ op = "idle"
    /\ root_kind = "dir"
    /\ op' = "build_tree_from_list"
    /\ yielded' = relpaths(files_from_list(flat_items))
    /\ tree' = build_tree_from_list(flat_items)
    /\ outcome' = "ok"
    /\ UNCHANGED <<os_name, exclude_globs, flat_items, root_kind>>
    /\ UNCHANGED archiveVars

\* build_tree(root, exclude_globs) on a local root, flat_items being what is
\* on disk below it.  No statement of it or of iter_included_files raises
\* for a root that is no directory.
BuildTree ==
    /\ op = "idle"
    /\ FsValid(flat_items)
    /\ op' = "build_tree"
    /\ yielded' = relpaths(iter_included_files(root_kind, flat_items, exclude_globs))
    /\ tree' = build_tree(root_kind, flat_items, exclude_globs)
    /\ outcome' = "ok"
    /\ UNCHANGED <<os_name, exclude_globs, flat_items, root_kind>>
    /\ UNCHANGED archiveVars

NextTree == BuildTreeFromList \/ BuildTree

Spec == Init /\ [][NextTree]_vars

SpecFilter == InitFilter /\ [][NextTree]_vars

(***************************************************************************)
(* download_all(request, slug), from the demo d the lookup found: d.root   *)
(* is the walked directory (flat_items is what is on disk below it) and    *)
(* d.exclude is exclude_globs.                                             *)
(***************************************************************************)
\* Sizes count in units of the generator's read size (1024 * 1024 bytes); the
\* size check only adds and compares them.  What buf holds is some whole
\* units of deflated data and, once anything is written, the headers, which
\* are far below one unit: draining it takes one read more than the units.
at_least_one(n) == IF n = 0 THEN 1 ELSE n

ArchivePaths == {"a", "b/c", ".svn/e"}
ArchiveEntries == {Entry(p, s, FALSE) : p \in ArchivePaths, s \in Sizes}
Budgets == 0..(MaxFiles * MaxSize)

\* size_check with the cap reached taken for the cap exceeded.
RECURSIVE size_check_at_cap(_, _, _, _)
size_check_at_cap(fs, k, tot, acc) ==
    IF k > Len(fs) THEN [exceeded |-> FALSE, total |-> tot, files |-> acc]
    ELSE LET t == tot + fs[k].size
             a == Append(acc, fs[k])
         IN IF t >= max_bytes THEN [exceeded |-> TRUE, total |-> t, files |-> a]
            ELSE size_check_at_cap(fs, k + 1, t, a)

\* for f in iter_included_files(...): size = f.stat().st_size; total += size;
\* files.append((f, size)); if total > max_bytes: return 413
RECURSIVE size_check(_, _, _, _)
size_check(fs, k, tot, acc) ==
    IF k > Len(fs) THEN [exceeded |-> FALSE, total |-> tot, files |-> acc]
    ELSE LET t == tot + fs[k].size
             a == Append(acc, fs[k])
         IN IF t > max_bytes THEN [exceeded |-> TRUE, total |-> t, files |-> a]
            ELSE size_check(fs, k + 1, t, a)

InitArchive ==
    /\ os_name \in {"posix", "nt"}
    /\ exclude_globs = DEFAULT_EXCLUDES
    /\ flat_items \in BoundedSeq(ArchiveEntries, MaxFiles)
    /\ FsValid(flat_items)
    /\ root_kind = "dir"
    /\ max_bytes \in Budgets
    /\ files = <<>> /\ total = 0 /\ on_disk = {} /\ gen = "none"
    /\ next_file = 1 /\ written = <<>> /\ buf_chunks = 0 /\ read_pos = 0 /\ emitted = 0
    /\ open_handles = {}
    /\ TreeIdle

\* download_all up to its return: the 413 response, or the streaming response
\* around a generator that has not run yet.
DownloadAll ==
    /\ op = "idle"
    /\ LET r == size_check(iter_included_files(root_kind, flat_items, exclude_globs),
                           1, 0, <<>>)
       IN /\ files' = r.files
          /\ total' = r.total
          /\ outcome' = IF r.exceeded THEN "413" ELSE "200"
          /\ gen' = IF r.exceeded THEN "none" ELSE "created"
    /\ op' = "download_all"
    /\ yielded' = relpaths(iter_included_files(root_kind, flat_items, exclude_globs))
    /\ on_disk' = {flat_items[i].relpath : i \in 1..Len(flat_items)}
    /\ UNCHANGED <<os_name, exclude_globs, flat_items, root_kind, tree, max_bytes,
                   next_file, written, buf_chunks, read_pos, emitted>>
    /\ UNCHANGED open_handles

\* The consumer asks for the first chunk: zip_generator runs from its top,
\* buf = io.BytesIO() and the ZipFile opened on it.
StartGenerator ==
    /\ gen = "created"
    /\ gen' = "writing"
    /\ next_file' = 1
    /\ written' = <<>>
    /\ buf_chunks' = 0
    /\ read_pos' = 0
    /\ UNCHANGED <<os_name, exclude_globs, flat_items, op, root_kind, outcome, yielded,
                   tree, max_bytes, files, total, on_disk, emitted>>
    /\ UNCHANGED open_handles

\* WriteFile with a file that is gone skipped instead of raising.
WriteFile_SkipMissing ==
    /\ gen = "writing"
    /\ open_handles = {}
    /\ next_file <= Len(files)
    /\ next_file' = next_file + 1
    /\ IF files[next_file].relpath \in on_disk
       THEN /\ written' = Append(written, files[next_file].relpath)
            /\ open_handles' = {files[next_file].relpath}
            /\ \E c \in 0..files[next_file].size :
                   buf_chunks' = at_least_one(buf_chunks) + c
       ELSE UNCHANGED <<written, buf_chunks, open_handles>>
    /\ UNCHANGED <<os_name, exclude_globs, flat_items, op, root_kind, outcome, yielded,
                   tree, max_bytes, files, total, on_disk, read_pos, emitted, gen>>

\* for f, _ in files: arcname = f.relative_to(d.root).as_posix(); zf.write(f, arcname).
\* zf.write of a file that is gone raises, the with block closes the ZipFile
\* and the exception leaves the generator; otherwise the member goes into buf:
\* its header, and its deflated bytes, which the contents decide and which
\* are no more than the file's.  zf.write holds the source open for reading
\* while it copies it; the action ends with the copy done and the source
\* still open.
WriteFile ==
    /\ gen = "writing"
    /\ open_handles = {}
    /\ next_file <= Len(files)
    /\ IF files[next_file].relpath \in on_disk
       THEN /\ written' = Append(written, files[next_file].relpath)
            /\ next_file' = next_file + 1
            /\ open_handles' = {files[next_file].relpath}
            /\ \E c \in 0..files[next_file].size :
                   buf_chunks' = at_least_one(buf_chunks) + c
            /\ gen' = gen
       ELSE /\ gen' = "raised"
            /\ UNCHANGED <<written, next_file, buf_chunks, open_handles>>
    /\ UNCHANGED <<os_name, exclude_globs, flat_items, op, root_kind, outcome, yielded,
                   tree, max_bytes, files, total, on_disk, read_pos, emitted>>

\* zf.write returns: the source it opened is closed before the loop goes on
\* to the next file or the generator reaches any yield.
CloseSource ==
    /\ gen = "writing"
    /\ open_handles # {}
    /\ open_handles' = {}
    /\ UNCHANGED <<os_name, exclude_globs, flat_items, op, root_kind, outcome, yielded,
                   tree, max_bytes, files, total, on_disk, gen, next_file, written,
                   buf_chunks, read_pos, emitted>>

\* FinishArchive with the yield reached while zf.write still holds a source
\* open.
FinishArchive_WhileOpen ==
    /\ gen = "writing"
    /\ next_file > Len(files)
    /\ buf_chunks' = at_least_one(buf_chunks)
    /\ read_pos' = 1
    /\ emitted' = emitted + 1
    /\ gen' = "suspended"
    /\ UNCHANGED <<os_name, exclude_globs, flat_items, op, root_kind, outcome, yielded,
                   tree, max_bytes, files, total, on_disk, next_file, written>>
    /\ UNCHANGED open_handles

\* The with block ends (the central directory goes into buf, which is never
\* empty after it), buf.seek(0), chunk = buf.read(1024 * 1024), and the first
\* "yield chunk" hands it to the consumer.
FinishArchive ==
    /\ gen = "writing"
    /\ open_handles = {}
    /\ next_file > Len(files)
    /\ buf_chunks' = at_least_one(buf_chunks)
    /\ read_pos' = 1
    /\ emitted' = emitted + 1
    /\ gen' = "suspended"
    /\ UNCHANGED <<os_name, exclude_globs, flat_items, op, root_kind, outcome, yielded,
                   tree, max_bytes, files, total, on_disk, next_file, written>>
    /\ UNCHANGED open_handles

\* The consumer asks for the next chunk: chunk = buf.read(1024 * 1024), and
\* "while chunk" yields it or ends the generator.
NextChunk ==
    /\ gen = "suspended"
    /\ IF read_pos < buf_chunks
       THEN /\ read_pos' = read_pos + 1
            /\ emitted' = emitted + 1
            /\ gen' = gen
       ELSE /\ gen' = "exhausted"
            /\ UNCHANGED <<read_pos, emitted>>
    /\ UNCHANGED <<os_name, exclude_globs, flat_items, op, root_kind, outcome, yielded,
                   tree, max_bytes, files, total, on_disk, next_file, written, buf_chunks>>
    /\ UNCHANGED open_handles

\* The consumer goes away: the response is closed and with it the generator,
\* which is then never resumed.
CloseGenerator ==
    /\ gen \in {"created", "suspended"}
    /\ gen' = "closed"
    /\ UNCHANGED <<os_name, exclude_globs, flat_items, op, root_kind, outcome, yielded,
                   tree, max_bytes, files, total, on_disk, next_file, written, buf_chunks,
                   read_pos, emitted>>
    /\ UNCHANGED open_handles

\* Another process removes a file of the demo while the response is alive.
FileDisappears ==
    /\ gen \in {"created", "writing", "suspended"}
    /\ \E p \in on_disk : on_disk' = on_disk \ {p}
    /\ UNCHANGED <<os_name, exclude_globs, flat_items, op, root_kind, outcome, yielded,
                   tree, max_bytes, files, total, gen, next_file, written, buf_chunks,
                   read_pos, emitted>>
    /\ UNCHANGED open_handles

NextArchive ==
    \/ DownloadAll
    \/ StartGenerator
    \/ WriteFile
    \/ CloseSource
    \/ FinishArchive
    \/ NextChunk
    \/ CloseGenerator
    \/ FileDisappears

SpecArchive == InitArchive /\ [][NextArchive]_vars

(***************************************************************************)
(* Properties.                                                             *)
(***************************************************************************)
Built == op \in {"build_tree", "build_tree_from_list"}

\* The tree as the loops left it, before finalize sorted it.
Unsorted ==
    IF op = "build_tree"
    THEN insert_all(RootId :> dir_node("", {}),
                    iter_included_files(root_kind, flat_items, exclude_globs), 1)
    ELSE insert_all_from_list(RootId :> dir_node("", {}), files_from_list(flat_items), 1)

\* C5: in the returned tree, the children of every directory node list every
\* directory before every file, and within the directories and within the
\* files the names ascend when compared in lower case.
C5_SortInvariant ==
    Built =>
        \A n \in DOMAIN tree :
            tree[n].type = "dir" =>
                \A i, j \in 1..Len(tree[n].children) :
                    i < j =>
                        LET x == tree[Append(n, tree[n].children[i])]
                            y == tree[Append(n, tree[n].children[j])]
                        IN /\ ~(x.type = "file" /\ y.type = "dir")
                           /\ x.type = y.type => ~str_lt(lower(y.name), lower(x.name))

\* A directory whose three children (a directory among files) were inserted in
\* another order than the one returned.
C5_Witness ==
    /\ Built
    /\ \E n \in DOMAIN tree :
           /\ tree[n].type = "dir"
           /\ Len(tree[n].children) = 3
           /\ tree[n].children # Unsorted[n].children
           /\ \E i, j \in 1..3 : /\ tree[Append(n, tree[n].children[i])].type = "dir"
                                 /\ tree[Append(n, tree[n].children[j])].type = "file"

RECURSIVE sum_sizes(_)
sum_sizes(items) == IF items = <<>> THEN 0 ELSE items[1].size + sum_sizes(Tail(items))

\* The entries the operation that ran let through its exclusion filter.
Included ==
    IF op = "build_tree" THEN iter_included_files(root_kind, flat_items, exclude_globs)
    ELSE files_from_list(flat_items)

\* C3: the root's size is the sum of the sizes of the file entries that pass
\* the exclusion filter.
C3_MassConservation == Built => tree[RootId].size = sum_sizes(Included)

\* n is a proper ancestor of d
ancestor(n, d) == Len(n) < Len(d) /\ SubSeq(d, 1, Len(n)) = n

RECURSIVE sum_nodes(_, _)
sum_nodes(t, ids) ==
    IF ids = {} THEN 0
    ELSE LET d == CHOOSE x \in ids : TRUE IN t[d].size + sum_nodes(t, ids \ {d})

file_descendants(t, n) == {d \in DOMAIN t : ancestor(n, d) /\ t[d].type = "file"}

\* C4: the size of every directory node is the sum of the sizes of the File
\* nodes below it in the returned tree.
C4_DirectorySizes ==
    Built =>
        \A n \in DOMAIN tree :
            tree[n].type = "dir" => tree[n].size = sum_nodes(tree, file_descendants(tree, n))

\* The (relpath, size) pairs of the File nodes of a tree, in the order of its
\* children lists.
RECURSIVE flatten(_, _)
RECURSIVE flatten_kids(_, _, _)
flatten_kids(t, n, i) ==
    IF i > Len(t[n].children) THEN <<>>
    ELSE flatten(t, Append(n, t[n].children[i])) \o flatten_kids(t, n, i + 1)

flatten(t, n) ==
    (IF t[n].type = "file" THEN <<Entry(t[n].relpath, t[n].size, FALSE)>> ELSE <<>>)
        \o flatten_kids(t, n, 1)

\* C9: the tree built from a listing, flattened and built again, is the same tree.
C9_Idempotent ==
    op = "build_tree_from_list" => build_tree_from_list(flatten(tree, RootId)) = tree

\* C8: a local root that does not exist or is no directory ends in NotFound,
\* never in a tree.
C8_NotFound == (op = "build_tree" /\ root_kind # "dir") => outcome = "NotFound"

\* Some segment of the path is '.svn', whatever the case.
svn_path(p) == \E i \in 1..Len(split(p)) : lower(split(p)[i]) = ".svn"

\* C1: whatever the rules, no path with a '.svn' segment is yielded by the
\* local enumeration, and none is the relpath of a File node of the tree built
\* from a remote listing.
C1_ControlDirExcluded ==
    /\ op = "build_tree" => \A i \in 1..Len(yielded) : ~svn_path(yielded[i])
    /\ op = "build_tree_from_list" =>
           \A n \in DOMAIN tree : tree[n].type = "file" => ~svn_path(tree[n].relpath)

ends_with(s, suffix) ==
    Len(s) >= Len(suffix) /\ SubSeq(s, Len(s) - Len(suffix) + 1, Len(s)) = suffix

last_segment(p) == split(p)[Len(split(p))]

\* C2: under the one pattern '**/*.tmp' the glob test excludes exactly the
\* files whose last segment ends in '.tmp', at any depth, the root's included.
C2_DoubleStarTmp ==
    (Built /\ exclude_globs = <<"**/*.tmp">>) =>
        \A i \in 1..Len(flat_items) :
            (~flat_items[i].is_dir /\ ~svn_path(flat_items[i].relpath)) =>
                ((\E k \in 1..Len(yielded) : yielded[k] = flat_items[i].relpath)
                    <=> ~ends_with(last_segment(flat_items[i].relpath), ".tmp"))

has_char(s, c) == \E i \in 1..Len(s) : Ch(s, i) = c

\* A pattern '*<suffix>': one leading '*', then neither '/' nor a wildcard.
star_suffix(pat) ==
    /\ pat # "" /\ Head(pat) = "*"
    /\ ~has_char(Tail(pat), "/") /\ ~has_char(Tail(pat), "*") /\ ~has_char(Tail(pat), "?")

\* C12: a '*' stays within one path segment: when every exclusion pattern is
\* of the form '*<suffix>' with no '/' in it, no file whose path has a '/' is
\* excluded by the glob test of iter_included_files or build_tree_from_list.
C12_StarWithinSegment ==
    (Built /\ exclude_globs # <<>>
           /\ \A g \in 1..Len(exclude_globs) : star_suffix(exclude_globs[g])) =>
        \A i \in 1..Len(flat_items) :
            (/\ ~flat_items[i].is_dir
             /\ has_char(flat_items[i].relpath, "/")
             /\ ~svn_path(flat_items[i].relpath)) =>
                \E k \in 1..Len(yielded) : yielded[k] = flat_items[i].relpath

\* The bytes of the files the walk lets through.
SelectedBytes == sum_sizes(iter_included_files(root_kind, flat_items, exclude_globs))

C7_NoPartialArchive ==
    /\ (\E k \in next_file..Len(files) : files[k].relpath \notin on_disk) =>
           (emitted = 0 /\ gen \in {"created", "writing", "raised", "closed"})
    /\ gen = "raised" => emitted = 0
    /\ emitted > 0 => written = relpaths(files)

\* The generator raised after it had put a first member into buf.
C7_Witness == gen = "raised" /\ Len(written) >= 1 /\ Len(files) >= 2 /\ emitted = 0

\* C11: no source file is open while the generator waits for the consumer
\* (before the first chunk is asked for and after each chunk handed out) or
\* after it ended, and once the consumer has gone away no further source file
\* is read or opened.
C11_NoOrphanedHandle ==
    /\ [](gen \in {"created", "suspended", "closed", "exhausted", "raised"} =>
              open_handles = {})
    /\ [][gen = "closed" => (gen' = "closed" /\ written' = written /\ open_handles' = {})]_vars

\* The consumer went away in mid-stream, two source files read and closed.
C11_Witness ==
    /\ gen = "closed"
    /\ Len(written) = 2
    /\ emitted >= 1
    /\ read_pos < buf_chunks

\* C10: production follows demand: whenever the generator is suspended at its
\* yield, buf holds nothing beyond the chunks already handed to the consumer.
C10_Backpressure == gen = "suspended" => buf_chunks = emitted

====
